---- MODULE Spec2Model ----
(***************************************************************************)
(* MediServe order fulfilment: the priority queue of orders                *)
(* (apps/orders/models.py, apps/orders/views.py) and the per-batch stock   *)
(* ledger (apps/medicine/models.py, apps/medicine/views.py).               *)
(*                                                                         *)
(* Every request handler is one action: it runs to completion on the       *)
(* database state (requests are taken one at a time in this module).       *)
(***************************************************************************)
EXTENDS Integers, Sequences, FiniteSets, TLC

\* ------------------------------------------------------------------ bounds
\* Orders ever created (primary keys 1..MaxOrders).
MaxOrders == 3
\* Batches ever created (primary keys 1..MaxBatches).
MaxBatches == 2
\* Largest quantity the admin enters for a batch in the stock ledger runs.
MaxBatchQty == 3
\* Latest expiry day the admin enters.
MaxExpiry == 2

Users == {"u1", "u2"}
Medicines == {"m1", "m2"}
Drivers == {"Marco Dela Cruz"}

\* queue_number = NULL (PositiveIntegerField(null=True)); the code only ever
\* assigns numbers >= 1, and tests "if self.queue_number" for presence.
NoQueue == 0
NoDriver == "NULL"
NoOrder == 0
\* completed_at = NULL (DateTimeField(null=True)); "set" stands for a time.
NoTime == "NULL"

\* Requests the server handles at the same time, and a slot with no request.
Procs == {"r1", "r2"}
Idle == [pc |-> "idle"]

\* A FileField column holds NULL, the empty string, or a stored file name.
\* signup_view assigns request.FILES.get(..), and a FileField saves a missing
\* upload as '' (FieldFile.__str__ is "name or ''"); NULL is what rows get
\* that were never saved through the model (the column default of null=True).
DocValues == {"NULL", "", "file"}
UserDocs ==
    { [senior_citizen_id |-> "NULL", pwd_id |-> "NULL"],
      [senior_citizen_id |-> "",     pwd_id |-> ""],
      [senior_citizen_id |-> "file", pwd_id |-> ""],
      [senior_citizen_id |-> "",     pwd_id |-> "file"] }

VARIABLES
    docs,        \* Account.senior_citizen_id / pwd_id of every user
    nullsFirst,  \* whether the database sorts NULL first in ORDER BY .. ASC
    orders,      \* tblorders: pk -> row
    items,       \* tblorderitems: order pk -> (medicine -> quantity)
    meds,        \* tblmedicine: medicine -> row (absent: not created)
    batches,     \* tblmedicine_batch: pk -> row
    nextOrder,   \* next primary key of tblorders
    nextBatch,   \* next primary key of tblmedicine_batch
    firstSeq,    \* history: order pks by their first entry into the queue
    lastSeq,     \* history: queued order pks by their latest entry
    last,        \* history: the last request and its outcome
    inflight,    \* requests in progress: request slot -> what it has read
    issued,      \* history: the batch numbers given to batches so far
    fixed,       \* history: fix_queue_numbers has been run
    traced       \* which requests the history variables record (constant)

vars == <<docs, nullsFirst, orders, items, meds, batches, nextOrder, nextBatch,
          firstSeq, lastSeq, last, inflight, issued, fixed, traced>>

\* ------------------------------------------------------------ sequences
SeqRemove(s, x) == SelectSeq(s, LAMBDA y : y # x)
SeqHas(s, x) == \E i \in 1..Len(s) : s[i] = x
IndexOf(s, x) == CHOOSE i \in 1..Len(s) : s[i] = x
SetMax(S) == CHOOSE n \in S : \A k \in S : k <= n
SetMin(S) == CHOOSE n \in S : \A k \in S : n <= k

RECURSIVE SumOver(_, _)
SumOver(f, S) ==
    IF S = {} THEN 0
    ELSE LET x == CHOOSE y \in S : TRUE IN f[x] + SumOver(f, S \ {x})

\* ------------------------------------------------------------- accounts
\* bool(FieldFile) is bool(name): NULL and '' are both falsy.
Truthy(d) == d = "file"

\* Order.is_priority_user, and "is_priority" of assign_queue_number.
is_priority_user(u) ==
    Truthy(docs[u].senior_citizen_id) \/ Truthy(docs[u].pwd_id)

\* The filter user__senior_citizen_id__isnull=True, user__pwd_id__isnull=True.
regular_filter(u) ==
    docs[u].senior_citizen_id = "NULL" /\ docs[u].pwd_id = "NULL"

\* The filter Q(user__senior_citizen_id__isnull=False) | Q(user__pwd_id__isnull=False).
priority_filter(u) ==
    docs[u].senior_citizen_id # "NULL" \/ docs[u].pwd_id # "NULL"

\* ------------------------------------------------------------- medicine
\* Medicine.get_max_order_quantity.
get_max_order_quantity(m) ==
    IF meds[m].order_limit = "3_days" THEN 3
    ELSE IF meds[m].order_limit = "1_week" THEN 7
    ELSE 7

\* Medicine.can_be_ordered; is_orderable is what Medicine.save last computed,
\* prescription_type = 'non_prescription'.
can_be_ordered(m) ==
    /\ meds[m].is_orderable
    /\ meds[m].prescription_type = "non_prescription"
    /\ meds[m].status = "active"

ActiveBatches(bs, m) ==
    {b \in DOMAIN bs : bs[b].medicine = m /\ bs[b].status = "active"}

\* Medicine.total_stock: Sum('quantity_available') over the active batches.
total_stock_in(bs, m) ==
    SumOver([b \in DOMAIN bs |-> bs[b].quantity_available], ActiveBatches(bs, m))

total_stock(m) == total_stock_in(batches, m)

\* order_by('expiry_date', 'batch_id'): batch_id is 'BATCH-%03d', which sorts
\* as its number does below 1000.
BatchBefore(bs, a, b) ==
    \/ bs[a].expiry_date < bs[b].expiry_date
    \/ /\ bs[a].expiry_date = bs[b].expiry_date
       /\ bs[a].batch_no < bs[b].batch_no
    \/ /\ bs[a].expiry_date = bs[b].expiry_date
       /\ bs[a].batch_no = bs[b].batch_no
       /\ a <= b

\* Medicine.get_next_expiring_batch: the first active batch with stock, or
\* NoBatch.
NoBatch == 0

Candidates(bs, m) ==
    {b \in ActiveBatches(bs, m) : bs[b].quantity_available > 0}

get_next_expiring_batch(bs, m) ==
    IF Candidates(bs, m) = {} THEN NoBatch
    ELSE CHOOSE b \in Candidates(bs, m) :
             \A c \in Candidates(bs, m) : BatchBefore(bs, b, c)

\* ---------------------------------------------------------- the queue
ActiveStatus == {"Pending", "Processing"}

Queued(os) == {o \in DOMAIN os : os[o].queue_number # NoQueue}

\* Order.assign_queue_number, run on the in-memory row rec of order self
\* against the saved rows os; the result is the table after self.save().
pending_orders(os, self) ==
    {o \in DOMAIN os \ {self} :
        os[o].status \in ActiveStatus /\ os[o].queue_number # NoQueue}

QueueMax(os, S) == SetMax({os[o].queue_number : o \in S})

\* assign_queue_number that puts every priority order at position 1.
assign_queue_number_front(os, self, rec) ==
    LET pend == pending_orders(os, self)
    IN  IF is_priority_user(rec.user)
        THEN [o \in DOMAIN os |->
                IF o = self THEN [rec EXCEPT !.queue_number = 1]
                ELSE IF o \in pend
                     THEN [os[o] EXCEPT !.queue_number = @ + 1]
                     ELSE os[o]]
        ELSE IF pend # {}
             THEN [os EXCEPT ![self] =
                      [rec EXCEPT !.queue_number = QueueMax(os, pend) + 1]]
             ELSE [os EXCEPT ![self] = [rec EXCEPT !.queue_number = 1]]

assign_queue_number(os, self, rec) ==
    LET pend == pending_orders(os, self)
        regular_orders == {o \in pend : regular_filter(os[o].user)}
        priority_orders == {o \in pend : priority_filter(os[o].user)}
        Shifted(from) ==
            [o \in DOMAIN os |->
                IF o = self THEN [rec EXCEPT !.queue_number = from]
                ELSE IF o \in pend /\ os[o].queue_number >= from
                     THEN [os[o] EXCEPT !.queue_number = @ + 1]
                     ELSE os[o]]
        Placed(n) == [os EXCEPT ![self] = [rec EXCEPT !.queue_number = n]]
    IN  IF is_priority_user(rec.user)
        THEN IF regular_orders # {}
             THEN IF priority_orders # {}
                  THEN Shifted(QueueMax(os, priority_orders) + 1)
                  ELSE Shifted(1)
             ELSE IF priority_orders # {}
                  THEN Placed(QueueMax(os, priority_orders) + 1)
                  ELSE Placed(1)
        ELSE IF pend # {}
             THEN Placed(QueueMax(os, pend) + 1)
             ELSE Placed(1)

\* remove_from_queue that clears the number and renumbers no other order.
remove_from_queue_noshift(os, self, rec) ==
    IF rec.queue_number # NoQueue
    THEN [os EXCEPT ![self] = [rec EXCEPT !.queue_number = NoQueue]]
    ELSE os

\* remove_from_queue that renumbers the others but keeps the order's number.
remove_from_queue_kept(os, self, rec) ==
    IF rec.queue_number # NoQueue
    THEN [o \in DOMAIN os |->
            IF o = self THEN rec
            ELSE IF /\ os[o].status \in ActiveStatus
                    /\ os[o].queue_number > rec.queue_number
                 THEN [os[o] EXCEPT !.queue_number = @ - 1]
                 ELSE os[o]]
    ELSE os

\* remove_from_queue that lowers the number of every other active order.
remove_from_queue_all_down(os, self, rec) ==
    IF rec.queue_number # NoQueue
    THEN [o \in DOMAIN os |->
            IF o = self THEN [rec EXCEPT !.queue_number = NoQueue]
            ELSE IF /\ os[o].status \in ActiveStatus
                    /\ os[o].queue_number > 1
                 THEN [os[o] EXCEPT !.queue_number = @ - 1]
                 ELSE os[o]]
    ELSE os

\* Order.remove_from_queue, run on the in-memory row rec of order self
\* against the saved rows os.
remove_from_queue(os, self, rec) ==
    IF rec.queue_number # NoQueue
    THEN [o \in DOMAIN os |->
            IF o = self THEN [rec EXCEPT !.queue_number = NoQueue]
            ELSE IF /\ os[o].status \in ActiveStatus
                    /\ os[o].queue_number > rec.queue_number
                 THEN [os[o] EXCEPT !.queue_number = @ - 1]
                 ELSE os[o]]
    ELSE os

\* Order.objects.filter(status__in=[Pending, Processing])
\*      .order_by('queue_number').first():
\* every row the database may return first. Rows without a queue number sort
\* before or after the numbered ones as the database sorts NULL; rows that
\* compare equal come in any order.
next_in_queue(os) ==
    LET active == {o \in DOMAIN os : os[o].status \in ActiveStatus}
        nulls == {o \in active : os[o].queue_number = NoQueue}
        nums == active \ nulls
        lowest == {o \in nums :
                     \A p \in nums : os[o].queue_number <= os[p].queue_number}
    IN  IF active = {} THEN {NoOrder}
        ELSE IF nullsFirst
             THEN (IF nulls # {} THEN nulls ELSE lowest)
             ELSE (IF nums # {} THEN lowest ELSE nulls)

\* Order.get_queue_position returns None.
NoPosition == 0

\* Order.get_queue_position on the saved rows os: the 1-based rank of order
\* self among the Pending and Processing orders in
\* order_by('queue_number', 'created_at'), rows without a queue number before
\* or after the numbered ones as the database sorts NULL (nf), rows created
\* earlier (lower primary key) first among equals.
get_queue_position(os, self, nf) ==
    IF os[self].status \notin ActiveStatus THEN NoPosition
    ELSE LET active_orders ==
                 {o \in DOMAIN os : os[o].status \in ActiveStatus}
             IsNull(o) == os[o].queue_number = NoQueue
             Precedes(a, b) ==
                 IF IsNull(a) # IsNull(b)
                 THEN (IF nf THEN IsNull(a) ELSE IsNull(b))
                 ELSE \/ os[a].queue_number < os[b].queue_number
                      \/ os[a].queue_number = os[b].queue_number /\ a < b
         IN  1 + Cardinality({o \in active_orders : Precedes(o, self)})

\* History of queue entries (not program state), kept when "entries" is
\* traced.
Entered(o) ==
    IF "entries" \in traced
    THEN /\ firstSeq' = IF SeqHas(firstSeq, o) THEN firstSeq
                        ELSE Append(firstSeq, o)
         /\ lastSeq' = Append(SeqRemove(lastSeq, o), o)
    ELSE UNCHANGED <<firstSeq, lastSeq>>

Left(o) ==
    IF "entries" \in traced
    THEN /\ lastSeq' = SeqRemove(lastSeq, o)
         /\ UNCHANGED firstSeq
    ELSE UNCHANGED <<firstSeq, lastSeq>>

\* The record of a request: kept for the traced requests only. For a ship or
\* a cancel that is carried out, arg is the queue number the order held.
Untraced == [op |-> "untraced", who |-> 0, arg |-> 0, ok |-> TRUE]

OutcomeOf(op, who, arg, ok) ==
    IF op \in traced THEN [op |-> op, who |-> who, arg |-> arg, ok |-> ok]
    ELSE Untraced

Outcome(op, who, ok) == OutcomeOf(op, who, 0, ok)

\* A request that is refused: nothing is written.
Rejected(op, who) ==
    /\ last' = Outcome(op, who, FALSE)
    /\ UNCHANGED <<inflight, traced, issued, fixed, docs, nullsFirst, orders,
                   items, meds, batches, nextOrder, nextBatch, firstSeq,
                   lastSeq>>

\* ------------------------------------------------------- orders/views.py
PendingOf(u) ==
    {o \in DOMAIN orders : orders[o].user = u /\ orders[o].status = "Pending"}

NewOrder(u) ==
    [user |-> u, status |-> "Pending", queue_number |-> NoQueue,
     driver |-> NoDriver, completed_at |-> NoTime]

\* add_to_order (apps/orders/views.py), a POST of quantity q for medicine m.
add_to_order(u, m, q) ==
    IF \/ m \notin DOMAIN meds
       \/ ~can_be_ordered(m)
       \/ q > get_max_order_quantity(m)
       \/ q > total_stock(m)
       \/ Cardinality(PendingOf(u)) > 1
    THEN Rejected("add_to_order", NoOrder)
    ELSE IF PendingOf(u) = {}
    THEN \* get_or_create creates the cart, then the item is created
         /\ nextOrder <= MaxOrders
         /\ orders' = [o \in DOMAIN orders \cup {nextOrder} |->
                         IF o = nextOrder THEN NewOrder(u) ELSE orders[o]]
         /\ items' = [o \in DOMAIN orders \cup {nextOrder} |->
                         IF o = nextOrder THEN (m :> q) ELSE items[o]]
         /\ nextOrder' = nextOrder + 1
         /\ last' = Outcome("add_to_order", nextOrder, TRUE)
         /\ UNCHANGED <<inflight, traced, issued, fixed, docs, nullsFirst,
                        meds, batches, nextBatch, firstSeq, lastSeq>>
    ELSE LET o == CHOOSE x \in PendingOf(u) : TRUE IN
         IF m \in DOMAIN items[o]
         THEN IF items[o][m] + q > get_max_order_quantity(m)
              THEN Rejected("add_to_order", o)
              ELSE /\ items' = [items EXCEPT ![o][m] = @ + q]
                   /\ last' = Outcome("add_to_order", o, TRUE)
                   /\ UNCHANGED <<inflight, traced, issued, fixed, docs,
                                  nullsFirst, orders, meds, batches,
                                  nextOrder, nextBatch, firstSeq, lastSeq>>
         ELSE /\ items' = [items EXCEPT ![o] = (m :> q) @@ @]
              /\ last' = Outcome("add_to_order", o, TRUE)
              /\ UNCHANGED <<inflight, traced, issued, fixed, docs,
                             nullsFirst, orders, meds, batches, nextOrder,
                             nextBatch, firstSeq, lastSeq>>

\* order_checkout without its limit and orderability checks.
ItemViolates_stock_only(o, m) == items[o][m] > total_stock(m)

\* The three checks order_checkout makes of one line item.
ItemViolates(o, m) ==
    \/ items[o][m] > total_stock(m)
    \/ items[o][m] > get_max_order_quantity(m)
    \/ ~can_be_ordered(m)

can_checkout(o) == \A m \in DOMAIN items[o] : ~ItemViolates(o, m)

\* order_checkout: Order.objects.get(user, status="Pending") raises for no row
\* (caught: "No items in your cart") and for several rows (not caught).
order_checkout(u) ==
    IF Cardinality(PendingOf(u)) # 1
    THEN Rejected("order_checkout", NoOrder)
    ELSE LET o == CHOOSE x \in PendingOf(u) : TRUE IN
         IF ~can_checkout(o)
         THEN Rejected("order_checkout", o)
         ELSE LET assigned == assign_queue_number(orders, o, orders[o]) IN
              /\ orders' = [assigned EXCEPT ![o].status = "Processing"]
              /\ Entered(o)
              /\ last' = Outcome("order_checkout", o, TRUE)
              /\ UNCHANGED <<inflight, traced, issued, fixed, docs,
                             nullsFirst, items, meds, batches, nextOrder,
                             nextBatch>>

\* update_order_item: a POST of quantity q for the line item of medicine m in
\* order o, by the order's owner. The order's status is not looked at.
update_order_item(o, m, quantity) ==
    IF o \notin DOMAIN orders \/ m \notin DOMAIN items[o]
    THEN Rejected("update_order_item", NoOrder)
    ELSE IF quantity <= 0
    THEN \* item.delete(); the order is kept, with or without items
         /\ items' = [items EXCEPT ![o] =
                         [x \in DOMAIN items[o] \ {m} |-> items[o][x]]]
         /\ last' = Outcome("update_order_item", o, TRUE)
         /\ UNCHANGED <<inflight, traced, issued, fixed, docs, nullsFirst,
                        orders, meds, batches, nextOrder, nextBatch, firstSeq,
                        lastSeq>>
    ELSE IF quantity > total_stock(m) \/ quantity > get_max_order_quantity(m)
    THEN Rejected("update_order_item", o)
    ELSE /\ items' = [items EXCEPT ![o][m] = quantity]
         /\ last' = Outcome("update_order_item", o, TRUE)
         /\ UNCHANGED <<inflight, traced, issued, fixed, docs, nullsFirst,
                        orders, meds, batches, nextOrder, nextBatch, firstSeq,
                        lastSeq>>

\* remove_order_item: the owner deletes the line item of medicine m in order
\* o; an order left without items is deleted (its items cascade), whatever
\* its status, without a call of remove_from_queue.
remove_order_item(o, m) ==
    IF o \notin DOMAIN orders \/ m \notin DOMAIN items[o]
    THEN Rejected("remove_order_item", NoOrder)
    ELSE IF DOMAIN items[o] = {m}
    THEN /\ orders' = [x \in DOMAIN orders \ {o} |-> orders[x]]
         /\ items' = [x \in DOMAIN items \ {o} |-> items[x]]
         /\ Left(o)
         /\ last' = Outcome("remove_order_item", o, TRUE)
         /\ UNCHANGED <<inflight, traced, issued, fixed, docs, nullsFirst,
                        meds, batches, nextOrder, nextBatch>>
    ELSE /\ items' = [items EXCEPT ![o] =
                         [x \in DOMAIN items[o] \ {m} |-> items[o][x]]]
         /\ last' = Outcome("remove_order_item", o, TRUE)
         /\ UNCHANGED <<inflight, traced, issued, fixed, docs, nullsFirst,
                        orders, meds, batches, nextOrder, nextBatch, firstSeq,
                        lastSeq>>

\* delivery_page, action 'assign_driver'.
assign_driver(o, driver_name) ==
    IF driver_name = ""
    THEN Rejected("assign_driver", o)
    ELSE /\ orders' = [orders EXCEPT ![o].driver = driver_name]
         /\ last' = Outcome("assign_driver", o, TRUE)
         /\ UNCHANGED <<inflight, traced, issued, fixed, docs, nullsFirst,
                        items, meds, batches, nextOrder, nextBatch, firstSeq,
                        lastSeq>>

\* The sequential check of delivery_page for 'process' and 'ship': n is the
\* row the query returned.
MustWaitFor(o, n) == n # NoOrder /\ o # n

\* delivery_page, action 'process'.
process(o) ==
    \E n \in next_in_queue(orders) :
        IF MustWaitFor(o, n) \/ orders[o].status # "Pending"
        THEN Rejected("process", o)
        ELSE /\ orders' = [orders EXCEPT ![o].status = "Processing"]
             /\ last' = Outcome("process", o, TRUE)
             /\ UNCHANGED <<inflight, traced, issued, fixed, docs, nullsFirst,
                            items, meds, batches, nextOrder, nextBatch,
                            firstSeq, lastSeq>>

\* delivery_page, action 'ship'.
ship(o) ==
    \E n \in next_in_queue(orders) :
        IF \/ MustWaitFor(o, n)
           \/ orders[o].status # "Processing"
           \/ orders[o].driver = NoDriver
        THEN Rejected("ship", o)
        ELSE LET rec == [orders[o] EXCEPT !.status = "Shipped"]
                 saved == [orders EXCEPT ![o] = rec]
             IN  /\ orders' = remove_from_queue(saved, o, rec)
                 /\ Left(o)
                 /\ last' = OutcomeOf("ship", o, orders[o].queue_number, TRUE)
                 /\ UNCHANGED <<inflight, traced, issued, fixed, docs,
                                nullsFirst, items, meds, batches, nextOrder,
                                nextBatch>>

\* delivery_page, action 'complete', and mark_order_completed.
complete(o) ==
    IF orders[o].status # "Shipped"
    THEN Rejected("complete", o)
    ELSE /\ orders' = [orders EXCEPT ![o].status = "Completed",
                                     ![o].completed_at = "set"]
         /\ last' = Outcome("complete", o, TRUE)
         /\ UNCHANGED <<inflight, traced, issued, fixed, docs, nullsFirst,
                        items, meds, batches, nextOrder, nextBatch, firstSeq,
                        lastSeq>>

\* delivery_page, action 'archive'. is_archived is no field of Order
\* (models.py), so order.save() writes no column for it.
archive(o) ==
    IF orders[o].status # "Completed"
    THEN Rejected("archive", o)
    ELSE /\ last' = Outcome("archive", o, TRUE)
         /\ UNCHANGED <<inflight, traced, issued, fixed, docs, nullsFirst,
                        orders, items, meds, batches, nextOrder, nextBatch,
                        firstSeq, lastSeq>>

\* cancel without the test of the order's status.
cancel_any(o) ==
    LET rec == [orders[o] EXCEPT !.status = "Cancelled"]
        saved == [orders EXCEPT ![o] = rec]
    IN  /\ orders' = remove_from_queue(saved, o, rec)
        /\ Left(o)
        /\ last' = OutcomeOf("cancel", o, orders[o].queue_number, TRUE)
        /\ UNCHANGED <<inflight, traced, issued, fixed, docs, nullsFirst,
                       items, meds, batches, nextOrder, nextBatch>>

\* delivery_page, action 'cancel'.
cancel(o) ==
    IF orders[o].status \notin {"Pending", "Processing"}
    THEN Rejected("cancel", o)
    ELSE LET rec == [orders[o] EXCEPT !.status = "Cancelled"]
             saved == [orders EXCEPT ![o] = rec]
         IN  /\ orders' = remove_from_queue(saved, o, rec)
             /\ Left(o)
             /\ last' = OutcomeOf("cancel", o, orders[o].queue_number, TRUE)
             /\ UNCHANGED <<inflight, traced, issued, fixed, docs, nullsFirst,
                            items, meds, batches, nextOrder, nextBatch>>

\* delivery_page, action 'reopen'.
reopen(o) ==
    IF orders[o].status \notin {"Completed", "Cancelled"}
    THEN Rejected("reopen", o)
    ELSE LET rec == [orders[o] EXCEPT !.status = "Processing"] IN
         /\ orders' = assign_queue_number(orders, o, rec)
         /\ Entered(o)
         /\ last' = Outcome("reopen", o, TRUE)
         /\ UNCHANGED <<inflight, traced, issued, fixed, docs, nullsFirst,
                        items, meds, batches, nextOrder, nextBatch>>

\* --------------------------- management/commands/fix_queue_numbers.py
\* The filters of fix_queue_numbers: isnull=False with __gt='' on either
\* document, and (isnull=True or ='') on both.
fix_priority_filter(u) ==
    \/ docs[u].senior_citizen_id # "NULL" /\ docs[u].senior_citizen_id # ""
    \/ docs[u].pwd_id # "NULL" /\ docs[u].pwd_id # ""

fix_regular_filter(u) ==
    /\ docs[u].senior_citizen_id = "NULL" \/ docs[u].senior_citizen_id = ""
    /\ docs[u].pwd_id = "NULL" \/ docs[u].pwd_id = ""

\* Command.handle: every Pending or Processing order is numbered, the
\* priority users' orders first, each group by created_at (the order of the
\* primary keys); the orders of the other statuses lose their number.
fix_queue_numbers ==
    LET all_orders == {o \in DOMAIN orders : orders[o].status \in ActiveStatus}
        priority_orders == {o \in all_orders : fix_priority_filter(orders[o].user)}
        regular_orders == {o \in all_orders : fix_regular_filter(orders[o].user)}
        \* the last number written to the row of o
        Number(o) ==
            IF o \in regular_orders
            THEN Cardinality(priority_orders)
                     + Cardinality({x \in regular_orders : x <= o})
            ELSE IF o \in priority_orders
            THEN Cardinality({x \in priority_orders : x <= o})
            ELSE orders[o].queue_number
    IN  /\ orders' = [o \in DOMAIN orders |->
                         IF orders[o].status \in ActiveStatus
                         THEN [orders[o] EXCEPT !.queue_number = Number(o)]
                         ELSE [orders[o] EXCEPT !.queue_number = NoQueue]]
        /\ fixed' = TRUE
        /\ last' = Outcome("fix_queue_numbers", NoOrder, TRUE)
        /\ UNCHANGED <<inflight, traced, issued, docs, nullsFirst, items,
                       meds, batches, nextOrder, nextBatch, firstSeq,
                       lastSeq>>

\* ----------------------------------------------------- medicine/views.py
NewMedicine ==
    [prescription_type |-> "non_prescription", order_limit |-> "1_week",
     is_orderable |-> TRUE, status |-> "active"]

\* The number of the next batch_id: one more than the largest number among
\* the rows of tblmedicine_batch (active and archived), or 1.
next_number(bs) ==
    IF DOMAIN bs = {} THEN 1
    ELSE SetMax({bs[b].batch_no : b \in DOMAIN bs}) + 1

\* "today" is day 0; dates are days from today.
today == 0

\* medicine_stock, POST: a new batch of quantity q expiring on expiry_date for
\* the medicine named m (received today). A name whose only medicine is
\* archived would create a second medicine of that name: not taken here.
medicine_stock(m, q, expiry_date) ==
    /\ m \in DOMAIN meds => meds[m].status = "active"
    /\ IF expiry_date <= today \/ q <= 0
       THEN Rejected("medicine_stock", NoBatch)
       ELSE /\ nextBatch <= MaxBatches
            /\ meds' = IF m \in DOMAIN meds THEN meds
                       ELSE (m :> NewMedicine) @@ meds
            /\ batches' = (nextBatch :>
                             [medicine |-> m,
                              batch_no |-> next_number(batches),
                              expiry_date |-> expiry_date,
                              quantity_received |-> q,
                              quantity_available |-> q,
                              quantity_dispensed |-> 0,
                              status |-> "active"]) @@ batches
            /\ nextBatch' = nextBatch + 1
            /\ issued' = issued \cup {next_number(batches)}
            /\ last' = Outcome("medicine_stock", nextBatch, TRUE)
            /\ UNCHANGED <<inflight, traced, fixed, docs, nullsFirst, orders,
                           items, nextOrder, firstSeq, lastSeq>>

\* edit_medicine, POST with the dates left as they are: the quantities of
\* batch b are set from the form.
edit_medicine(b, quantity_received, quantity_available) ==
    IF quantity_available > quantity_received
    THEN Rejected("edit_medicine", b)
    ELSE /\ batches' = [batches EXCEPT
                ![b].quantity_received = quantity_received,
                ![b].quantity_available = quantity_available,
                ![b].quantity_dispensed = quantity_received - quantity_available]
         /\ last' = Outcome("edit_medicine", b, TRUE)
         /\ UNCHANGED <<inflight, traced, issued, fixed, docs, nullsFirst,
                        orders, items, meds, nextOrder, nextBatch, firstSeq,
                        lastSeq>>

\* MedicineBatch.dispense: the row after the call, and what it returns.
dispense_ok(row, quantity) == ~(quantity > row.quantity_available)

\* dispense without its guard.
dispense_row_unguarded(row, quantity) ==
    [row EXCEPT !.quantity_available = @ - quantity,
                !.quantity_dispensed = @ + quantity]

dispense_row(row, quantity) ==
    IF dispense_ok(row, quantity)
    THEN [row EXCEPT !.quantity_available = @ - quantity,
                     !.quantity_dispensed = @ + quantity]
    ELSE row

\* A call of MedicineBatch.dispense on batch b.
dispense(b, quantity) ==
    /\ batches' = [batches EXCEPT ![b] = dispense_row(@, quantity)]
    /\ last' = OutcomeOf("dispense", b, quantity,
                          dispense_ok(batches[b], quantity))
    /\ UNCHANGED <<inflight, traced, issued, fixed, docs, nullsFirst, orders,
                   items, meds, nextOrder, nextBatch, firstSeq, lastSeq>>

\* archive_batch: refused while an order that is Pending, Processing or
\* Shipped has a line item of the batch's medicine.
has_pending_orders(m) ==
    \E o \in DOMAIN orders :
        /\ orders[o].status \in {"Pending", "Processing", "Shipped"}
        /\ m \in DOMAIN items[o]

archive_batch(b) ==
    IF batches[b].status # "active" \/ has_pending_orders(batches[b].medicine)
    THEN Rejected("archive_batch", b)
    ELSE /\ batches' = [batches EXCEPT ![b].status = "archived"]
         /\ last' = Outcome("archive_batch", b, TRUE)
         /\ UNCHANGED <<inflight, traced, issued, fixed, docs, nullsFirst,
                        orders, items, meds, nextOrder, nextBatch, firstSeq,
                        lastSeq>>

\* delete_archived_batch.
delete_archived_batch(b) ==
    IF batches[b].status # "archived"
    THEN Rejected("delete_archived_batch", b)
    ELSE /\ batches' = [x \in DOMAIN batches \ {b} |-> batches[x]]
         /\ last' = Outcome("delete_archived_batch", b, TRUE)
         /\ UNCHANGED <<inflight, traced, issued, fixed, docs, nullsFirst,
                        orders, items, meds, nextOrder, nextBatch, firstSeq,
                        lastSeq>>

\* MedicineForm (fields prescription_type, order_limit) saved for medicine m;
\* Medicine.save recomputes is_orderable.
medicine_form_save(m, prescription_type, order_limit) ==
    /\ m \in DOMAIN meds
    /\ meds' = [meds EXCEPT
                  ![m].prescription_type = prescription_type,
                  ![m].order_limit = order_limit,
                  ![m].is_orderable = (prescription_type = "non_prescription")]
    /\ last' = Outcome("medicine_form_save", NoOrder, TRUE)
    /\ UNCHANGED <<inflight, traced, issued, fixed, docs, nullsFirst, orders,
                   items, batches, nextOrder, nextBatch, firstSeq, lastSeq>>

\* Medicine.archive: the medicine and all its batches become archived.
medicine_archive(m) ==
    /\ m \in DOMAIN meds
    /\ meds' = [meds EXCEPT
                  ![m].status = "archived",
                  ![m].is_orderable = (meds[m].prescription_type = "non_prescription")]
    /\ batches' = [b \in DOMAIN batches |->
                     IF batches[b].medicine = m
                     THEN [batches[b] EXCEPT !.status = "archived"]
                     ELSE batches[b]]
    /\ last' = Outcome("medicine_archive", NoOrder, TRUE)
    /\ UNCHANGED <<inflight, traced, issued, fixed, docs, nullsFirst, orders,
                   items, nextOrder, nextBatch, firstSeq, lastSeq>>

\* ------------------------------------------- requests served concurrently
\* No view of orders/views.py runs in a transaction or takes a lock, so the
\* queries of two requests interleave. A request in a slot of inflight has
\* made its reads and holds the rows it read; its writes follow, one save()
\* per step, each writing every column of the row the request holds.

\* The orders of S in ascending queue_number (order_by('queue_number')).
RECURSIVE ByQueueNumber(_, _)
ByQueueNumber(os, S) ==
    IF S = {} THEN <<>>
    ELSE LET x == CHOOSE x \in S :
                    \A y \in S : os[x].queue_number <= os[y].queue_number
         IN  <<x>> \o ByQueueNumber(os, S \ {x})

\* order_checkout up to the queries of assign_queue_number: the number of the
\* order is computed and the rows to renumber are fetched.
checkout_begin(p, u) ==
    /\ inflight[p] = Idle
    /\ IF Cardinality(PendingOf(u)) # 1
       THEN Rejected("order_checkout", NoOrder)
       ELSE LET o == CHOOSE x \in PendingOf(u) : TRUE IN
            IF ~can_checkout(o)
            THEN Rejected("order_checkout", o)
            ELSE LET assigned == assign_queue_number(orders, o, orders[o])
                     moved == {x \in DOMAIN orders \ {o} :
                                  assigned[x] # orders[x]}
                     fetched == ByQueueNumber(orders, moved)
                 IN  /\ inflight' = [inflight EXCEPT ![p] =
                            [pc |-> "checkout", order |-> o,
                             row |-> assigned[o],
                             shift |-> [i \in DOMAIN fetched |->
                                          <<fetched[i], orders[fetched[i]]>>]]]
                     /\ last' = Untraced
                     /\ UNCHANGED <<traced, issued, fixed, docs, nullsFirst,
                                    orders, items, meds, batches, nextOrder,
                                    nextBatch, firstSeq, lastSeq>>

\* One pass of "for order in orders_to_shift: order.queue_number += 1;
\* order.save()": the fetched row is written back with its number raised.
checkout_shift(p) ==
    /\ inflight[p].pc = "checkout"
    /\ inflight[p].shift # <<>>
    /\ LET pk == Head(inflight[p].shift)[1]
           row == Head(inflight[p].shift)[2]
       IN  orders' = [orders EXCEPT
                         ![pk] = [row EXCEPT !.queue_number = @ + 1]]
    /\ inflight' = [inflight EXCEPT ![p].shift = Tail(@)]
    /\ last' = Untraced
    /\ UNCHANGED <<traced, issued, fixed, docs, nullsFirst, items, meds,
                   batches, nextOrder, nextBatch, firstSeq, lastSeq>>

\* self.save() of assign_queue_number, then status = "Processing" and
\* order.save() of order_checkout.
checkout_save(p) ==
    /\ inflight[p].pc = "checkout"
    /\ inflight[p].shift = <<>>
    /\ orders' = [orders EXCEPT ![inflight[p].order] =
                     [inflight[p].row EXCEPT !.status = "Processing"]]
    /\ Entered(inflight[p].order)
    /\ inflight' = [inflight EXCEPT ![p] = Idle]
    /\ last' = Outcome("order_checkout", inflight[p].order, TRUE)
    /\ UNCHANGED <<traced, issued, fixed, docs, nullsFirst, items, meds,
                   batches, nextOrder, nextBatch>>

\* add_to_order up to the lookup of get_or_create(user, status="Pending"):
\* with a cart the request goes on as add_to_order; without one it is about
\* to create it.
add_begin(p, u, m, q) ==
    /\ inflight[p] = Idle
    /\ IF PendingOf(u) # {}
       THEN add_to_order(u, m, q)
       ELSE IF \/ m \notin DOMAIN meds
               \/ ~can_be_ordered(m)
               \/ q > get_max_order_quantity(m)
               \/ q > total_stock(m)
       THEN Rejected("add_to_order", NoOrder)
       ELSE /\ inflight' = [inflight EXCEPT ![p] =
                   [pc |-> "add", user |-> u, medicine |-> m, quantity |-> q]]
            /\ last' = Untraced
            /\ UNCHANGED <<traced, issued, fixed, docs, nullsFirst, orders,
                           items, meds, batches, nextOrder, nextBatch,
                           firstSeq, lastSeq>>

\* The create of get_or_create, then OrderItem.objects.create.
add_create(p) ==
    /\ inflight[p].pc = "add"
    /\ nextOrder <= MaxOrders
    /\ orders' = [o \in DOMAIN orders \cup {nextOrder} |->
                     IF o = nextOrder THEN NewOrder(inflight[p].user)
                     ELSE orders[o]]
    /\ items' = [o \in DOMAIN orders \cup {nextOrder} |->
                    IF o = nextOrder
                    THEN (inflight[p].medicine :> inflight[p].quantity)
                    ELSE items[o]]
    /\ nextOrder' = nextOrder + 1
    /\ inflight' = [inflight EXCEPT ![p] = Idle]
    /\ last' = Outcome("add_to_order", nextOrder, TRUE)
    /\ UNCHANGED <<traced, issued, fixed, docs, nullsFirst, meds, batches,
                   nextBatch, firstSeq, lastSeq>>

\* A caller of MedicineBatch.dispense loads the batch row.
dispense_load(p, b) ==
    /\ inflight[p] = Idle
    /\ b \in DOMAIN batches
    /\ inflight' = [inflight EXCEPT ![p] =
           [pc |-> "loaded", batch |-> b, row |-> batches[b]]]
    /\ last' = Untraced
    /\ UNCHANGED <<traced, issued, fixed, docs, nullsFirst, orders, items,
                   meds, batches, nextOrder, nextBatch, firstSeq, lastSeq>>

\* MedicineBatch.dispense(quantity) on the loaded row: the guard reads the
\* loaded quantity_available, save() writes the loaded row back.
dispense_call(p, quantity) ==
    /\ inflight[p].pc = "loaded"
    /\ batches' = IF dispense_ok(inflight[p].row, quantity)
                  THEN [batches EXCEPT ![inflight[p].batch] =
                           dispense_row(inflight[p].row, quantity)]
                  ELSE batches
    /\ inflight' = [inflight EXCEPT ![p] =
           [pc |-> "returned", batch |-> inflight[p].batch,
            quantity |-> quantity,
            ok |-> dispense_ok(inflight[p].row, quantity)]]
    /\ last' = OutcomeOf("dispense", inflight[p].batch, quantity,
                         dispense_ok(inflight[p].row, quantity))
    /\ UNCHANGED <<traced, issued, fixed, docs, nullsFirst, orders, items,
                   meds, nextOrder, nextBatch, firstSeq, lastSeq>>

\* ------------------------------------------------------- specifications
\* Accounts as signup_view leaves them: u1 without uploads, u2 with a
\* disability document.
SignedUp ==
    ("u1" :> [senior_citizen_id |-> "", pwd_id |-> ""]) @@
    ("u2" :> [senior_citizen_id |-> "", pwd_id |-> "file"])

AnyDocs == [Users -> UserDocs]

\* One assignment of documents per unordered pair of the three cases the code
\* tells apart (no document row value: NULL, '' or a file). The two users are
\* interchangeable and the code reads the two document fields alike (a or b,
\* both isnull, either not isnull), so these cover AnyDocs.
DocsOf(a, b) == ("u1" :> a) @@ ("u2" :> b)
NullDocs == [senior_citizen_id |-> "NULL", pwd_id |-> "NULL"]
EmptyDocs == [senior_citizen_id |-> "", pwd_id |-> ""]
SeniorDocs == [senior_citizen_id |-> "file", pwd_id |-> ""]
PwdDocs == [senior_citizen_id |-> "", pwd_id |-> "file"]
DocCases ==
    { DocsOf(NullDocs, NullDocs), DocsOf(NullDocs, EmptyDocs),
      DocsOf(NullDocs, SeniorDocs), DocsOf(EmptyDocs, EmptyDocs),
      DocsOf(EmptyDocs, PwdDocs), DocsOf(SeniorDocs, PwdDocs) }

\* The state after construction: the accounts exist, the tables are empty.
\* The accounts' documents are drawn from D, the database's NULL ordering
\* from NF; tr names the requests the history records.
Start(tr, D, NF) ==
    /\ docs \in D
    /\ nullsFirst \in NF
    /\ orders = <<>>
    /\ items = <<>>
    /\ meds = <<>>
    /\ batches = <<>>
    /\ nextOrder = 1
    /\ nextBatch = 1
    /\ firstSeq = <<>>
    /\ lastSeq = <<>>
    /\ last = Untraced
    /\ inflight = [p \in Procs |-> Idle]
    /\ issued = {}
    /\ fixed = FALSE
    /\ traced = tr

\* The state after the admin stocked medicine m1 with one batch of 7 (the
\* largest order of a 1_week medicine): medicine_stock("m1", 7, 1) from Start.
Stocked(tr, D, NF) ==
    /\ docs \in D
    /\ nullsFirst \in NF
    /\ orders = <<>>
    /\ items = <<>>
    /\ meds = ("m1" :> NewMedicine)
    /\ batches = (1 :> [medicine |-> "m1", batch_no |-> 1, expiry_date |-> 1,
                        quantity_received |-> 7, quantity_available |-> 7,
                        quantity_dispensed |-> 0, status |-> "active"])
    /\ nextOrder = 1
    /\ nextBatch = 2
    /\ firstSeq = <<>>
    /\ lastSeq = <<>>
    /\ last = Untraced
    /\ inflight = [p \in Procs |-> Idle]
    /\ issued = {1}
    /\ fixed = FALSE
    /\ traced = tr

\* Checkout, ship, cancel and reopen, with what they need to happen: carts,
\* drivers, and completion.
NextQueue ==
    \/ \E u \in Users : add_to_order(u, "m1", 7)
    \/ \E u \in Users : order_checkout(u)
    \/ \E o \in DOMAIN orders : \E d \in Drivers : assign_driver(o, d)
    \/ \E o \in DOMAIN orders : ship(o)
    \/ \E o \in DOMAIN orders : complete(o)
    \/ \E o \in DOMAIN orders : cancel(o)
    \/ \E o \in DOMAIN orders : reopen(o)

InitQueue == Stocked({"entries"}, DocCases, BOOLEAN)

SpecQueue == InitQueue /\ [][NextQueue]_vars

\* Staff work on the queue while the admin corrects the stock of batch 1.
NextShip ==
    \/ \E u \in Users : add_to_order(u, "m1", 7)
    \/ \E u \in Users : order_checkout(u)
    \/ \E o \in DOMAIN orders : \E d \in Drivers : assign_driver(o, d)
    \/ \E o \in DOMAIN orders : process(o)
    \/ \E o \in DOMAIN orders : ship(o)
    \/ \E o \in DOMAIN orders : cancel(o)
    \/ \E a \in {3, 7} : edit_medicine(1, 7, a)

InitShip == Stocked({"ship"}, {SignedUp}, BOOLEAN)

SpecShip == InitShip /\ [][NextShip]_vars

\* Every action of delivery_page, requested for any order in any status.
LifecycleOps == {"process", "ship", "complete", "archive", "cancel", "reopen"}

NextLifecycle ==
    \/ \E u \in Users : add_to_order(u, "m1", 7)
    \/ \E u \in Users : order_checkout(u)
    \/ \E o \in DOMAIN orders : \E d \in Drivers : assign_driver(o, d)
    \/ \E o \in DOMAIN orders : process(o)
    \/ \E o \in DOMAIN orders : ship(o)
    \/ \E o \in DOMAIN orders : complete(o)
    \/ \E o \in DOMAIN orders : archive(o)
    \/ \E o \in DOMAIN orders : cancel(o)
    \/ \E o \in DOMAIN orders : reopen(o)

InitLifecycle == Stocked(LifecycleOps, {SignedUp}, BOOLEAN)

SpecLifecycle == InitLifecycle /\ [][NextLifecycle]_vars

\* The stock ledger: the admin adds, edits, archives and deletes batches of
\* one medicine, and MedicineBatch.dispense is called on them.
BatchQtys == 0..MaxBatchQty
EditQtys == (0 - 1)..MaxBatchQty
DispenseQtys == 0..(MaxBatchQty + 1)
ExpiryDays == 0..MaxExpiry

NextStock ==
    \/ \E q \in BatchQtys, e \in ExpiryDays : medicine_stock("m1", q, e)
    \/ \E b \in DOMAIN batches : \E r, a \in EditQtys : edit_medicine(b, r, a)
    \/ \E b \in DOMAIN batches : \E q \in DispenseQtys : dispense(b, q)
    \/ \E b \in DOMAIN batches : archive_batch(b)
    \/ \E b \in DOMAIN batches : delete_archived_batch(b)

InitStock == Start({"dispense"}, {SignedUp}, {FALSE})

SpecStock == InitStock /\ [][NextStock]_vars

\* Carts and checkouts while the admin changes the medicine's limit and
\* prescription type, corrects the batch's quantity or archives the medicine.
NextCheckout ==
    \/ \E u \in Users : \E q \in {3, 4} : add_to_order(u, "m1", q)
    \/ \E u \in Users : order_checkout(u)
    \/ \E t \in {"non_prescription", "prescription"} :
           \E l \in {"3_days", "1_week"} : medicine_form_save("m1", t, l)
    \/ \E a \in {3, 7} : edit_medicine(1, 7, a)
    \/ medicine_archive("m1")
    \/ \E o \in DOMAIN orders : cancel(o)

InitCheckout == Stocked({"order_checkout"}, {SignedUp}, {FALSE})

SpecCheckout == InitCheckout /\ [][NextCheckout]_vars

\* The owner's cart requests (add, change, remove a line item), checkout and
\* cancel.
NextCart ==
    \/ \E u \in Users : \E q \in {3, 4} : add_to_order(u, "m1", q)
    \/ \E o \in DOMAIN orders : \E q \in {0, 5} : update_order_item(o, "m1", q)
    \/ \E o \in DOMAIN orders : remove_order_item(o, "m1")
    \/ \E u \in Users : order_checkout(u)
    \/ \E o \in DOMAIN orders : cancel(o)

InitCart == Stocked({"order_checkout"}, {SignedUp}, {FALSE})

SpecCart == InitCart /\ [][NextCart]_vars


\* Two requests at a time: carts and checkouts of a user without documents
\* (or with '' documents) and a user with a document.
NextRace ==
    \/ \E p \in Procs : \E u \in Users : add_begin(p, u, "m1", 7)
    \/ \E p \in Procs : add_create(p)
    \/ \E p \in Procs : \E u \in Users : checkout_begin(p, u)
    \/ \E p \in Procs : checkout_shift(p)
    \/ \E p \in Procs : checkout_save(p)

InitRace == Stocked({}, {SignedUp, DocsOf(NullDocs, SeniorDocs)}, {FALSE})

SpecRace == InitRace /\ [][NextRace]_vars

\* Two callers of MedicineBatch.dispense on the batch of 7, one call each.
NextRaceStock ==
    \/ \E p \in Procs : dispense_load(p, 1)
    \/ \E p \in Procs : \E q \in 0..7 : dispense_call(p, q)

InitRaceStock == Stocked({}, {SignedUp}, {FALSE})

SpecRaceStock == InitRaceStock /\ [][NextRaceStock]_vars

\* Staff assign either of two drivers, at any time, while orders are checked
\* out, shipped and completed.
TwoDrivers == {"Marco Dela Cruz", "Johnrey Santos"}

NextDriver ==
    \/ \E u \in Users : add_to_order(u, "m1", 7)
    \/ \E u \in Users : order_checkout(u)
    \/ \E o \in DOMAIN orders : \E d \in TwoDrivers : assign_driver(o, d)
    \/ \E o \in DOMAIN orders : ship(o)
    \/ \E o \in DOMAIN orders : complete(o)

InitDriver == Stocked({"assign_driver"}, {SignedUp}, {FALSE})

SpecDriver == InitDriver /\ [][NextDriver]_vars


\* The admin adds, archives and deletes batches of m1 while users fill
\* carts, check out and staff cancel orders.
NextBatchOrders ==
    \/ medicine_stock("m1", 7, 1)
    \/ \E u \in Users : add_to_order(u, "m1", 7)
    \/ \E u \in Users : order_checkout(u)
    \/ \E o \in DOMAIN orders : cancel(o)
    \/ \E b \in DOMAIN batches : archive_batch(b)
    \/ \E b \in DOMAIN batches : delete_archived_batch(b)

InitBatchOrders == Stocked({"archive_batch"}, {SignedUp}, {FALSE})

SpecBatchOrders == InitBatchOrders /\ [][NextBatchOrders]_vars


\* Checkouts served two at a time while staff cancel orders: u1 without
\* documents (NULL), u2 with a document, so that u2's checkout renumbers
\* u1's queued order.
NextRaceCancel ==
    \/ \E u \in Users : add_to_order(u, "m1", 7)
    \/ \E p \in Procs : \E u \in Users : checkout_begin(p, u)
    \/ \E p \in Procs : checkout_shift(p)
    \/ \E p \in Procs : checkout_save(p)
    \/ \E o \in DOMAIN orders : cancel(o)

InitRaceCancel == Stocked({"entries"}, {DocsOf(NullDocs, SeniorDocs)}, {FALSE})

SpecRaceCancel == InitRaceCancel /\ [][NextRaceCancel]_vars


\* Staff serve the queue in order: they assign a driver to, and ship, the
\* order that holds the lowest queue number, while users fill carts and check
\* out and orders are cancelled. Staff keep at it (weak fairness on the two
\* staff requests); nothing is assumed of the users.
HeadOrders ==
    {o \in DOMAIN orders :
        /\ orders[o].status \in ActiveStatus
        /\ orders[o].queue_number # NoQueue
        /\ \A x \in DOMAIN orders :
              (orders[x].status \in ActiveStatus /\ orders[x].queue_number # NoQueue)
                  => orders[o].queue_number <= orders[x].queue_number}

AssignHead ==
    \E o \in HeadOrders :
        /\ orders[o].driver = NoDriver
        /\ \E d \in Drivers : assign_driver(o, d)

ShipHead == \E o \in HeadOrders : ship(o)

NextServe ==
    \/ \E u \in Users : add_to_order(u, "m1", 7)
    \/ \E u \in Users : order_checkout(u)
    \/ AssignHead
    \/ ShipHead
    \/ \E o \in DOMAIN orders : cancel(o)

InitServe == Stocked({}, {SignedUp}, BOOLEAN)

SpecServe ==
    /\ InitServe /\ [][NextServe]_vars
    /\ WF_vars(AssignHead) /\ WF_vars(ShipHead)


\* The queue requests of NextQueue, with fix_queue_numbers run at any time.
NextFix ==
    \/ \E u \in Users : add_to_order(u, "m1", 7)
    \/ \E u \in Users : order_checkout(u)
    \/ \E o \in DOMAIN orders : \E d \in Drivers : assign_driver(o, d)
    \/ \E o \in DOMAIN orders : ship(o)
    \/ \E o \in DOMAIN orders : complete(o)
    \/ \E o \in DOMAIN orders : cancel(o)
    \/ \E o \in DOMAIN orders : reopen(o)
    \/ fix_queue_numbers

InitFix == Stocked({}, {SignedUp, DocsOf(NullDocs, SeniorDocs)}, BOOLEAN)

SpecFix == InitFix /\ [][NextFix]_vars


\* ----------------------------------------------------------------- claims
Holders == Queued(orders)

ActiveHolders == {o \in Holders : orders[o].status \in ActiveStatus}

Before(s, a, b) == SeqHas(s, a) /\ SeqHas(s, b) /\ IndexOf(s, a) < IndexOf(s, b)

SameClass(a, b) ==
    is_priority_user(orders[a].user) = is_priority_user(orders[b].user)

\* C1: after any sequence of checkout, ship, cancel and reopen requests, the
\* queue numbers of the Pending and Processing orders are pairwise distinct
\* and are exactly 1..N, N the number of orders that hold a queue number.
C1_QueueGapless ==
    /\ \A a, b \in ActiveHolders :
           a # b => orders[a].queue_number # orders[b].queue_number
    /\ {orders[o].queue_number : o \in ActiveHolders}
           = 1..Cardinality(Holders)

\* Two orders are queued, one of them after a reopen that put it behind an
\* order it first preceded, and an order has been shipped or cancelled.
C1_Witness ==
    /\ Cardinality(Holders) >= 2
    /\ \E a, b \in Holders : Before(firstSeq, a, b) /\ Before(lastSeq, b, a)
    /\ \E o \in DOMAIN orders : orders[o].status \in {"Shipped", "Cancelled"}

\* C2: of two orders that hold a queue number, the one of a priority user (a
\* non-empty senior-citizen or disability document) holds a smaller number
\* than the one of a user who is not priority.
C2_PriorityFirst ==
    \A a, b \in Holders :
        (is_priority_user(orders[a].user) /\ ~is_priority_user(orders[b].user))
            => orders[a].queue_number < orders[b].queue_number

\* C3 as claimed: of two queued orders of the same class, the one that first
\* entered the queue earlier holds the smaller number, also after a reopen.
C3_FirstEntryOrder ==
    \A a, b \in Holders :
        (SameClass(a, b) /\ Before(firstSeq, a, b))
            => orders[a].queue_number < orders[b].queue_number

\* C3 as amended: of two queued orders of the same class, the one whose latest
\* entry into the queue (checkout or reopen) is earlier holds the smaller
\* number.
C3_LatestEntryOrder ==
    \A a, b \in Holders :
        (SameClass(a, b) /\ Before(lastSeq, a, b))
            => orders[a].queue_number < orders[b].queue_number

\* Two queued orders of one class, the second of which entered the queue
\* first, was retired and was reopened.
C3_Witness ==
    \E a, b \in Holders :
        /\ a # b /\ SameClass(a, b)
        /\ Before(lastSeq, a, b) /\ Before(firstSeq, b, a)
        /\ orders[a].queue_number < orders[b].queue_number

\* The request recorded by the step is a ship of order o.
ShipRequested(o) == last'.op = "ship" /\ last'.who = o

\* Order o is Processing and some active order holds the lowest queue
\* number, which is not o's.
NotAtHead(o) ==
    /\ orders[o].status = "Processing"
    /\ ActiveHolders # {}
    /\ orders[o].queue_number #
           SetMin({orders[p].queue_number : p \in ActiveHolders})

\* C4: a ship request for a Processing order that does not hold the lowest
\* queue number among the active orders is rejected and changes no order and
\* no batch.
C4_ShipOutOfOrderRejected ==
    [][\A o \in DOMAIN orders :
          (ShipRequested(o) /\ NotAtHead(o))
              => (~last'.ok /\ orders' = orders /\ batches' = batches)]_vars

TotalDispensed(bs, m) ==
    SumOver([b \in DOMAIN bs |-> bs[b].quantity_dispensed], ActiveBatches(bs, m))

\* C5: a successful ship moves the quantity of every line item of the order
\* from quantity_available to quantity_dispensed of the medicine's active
\* batches.
C5_ShipDispenses ==
    [][\A o \in DOMAIN orders :
          (ShipRequested(o) /\ last'.ok)
              => \A m \in DOMAIN items[o] :
                    /\ total_stock_in(batches', m)
                           = total_stock(m) - items[o][m]
                    /\ TotalDispensed(batches', m)
                           = TotalDispensed(batches, m) + items[o][m]]_vars

\* C6: a ship request for an order with a line item larger than the total
\* available quantity of its medicine is rejected as a whole: no order and no
\* batch changes.
C6_ShipShortRejected ==
    [][\A o \in DOMAIN orders :
          (/\ ShipRequested(o)
           /\ \E m \in DOMAIN items[o] : items[o][m] > total_stock(m))
              => (~last'.ok /\ orders' = orders /\ batches' = batches)]_vars

\* The first-expiry-first-out walk of the specification: min(available,
\* remaining) from each active batch with stock, in (expiry_date, batch_id)
\* order.
RECURSIVE Allocate(_, _, _)
Allocate(bs, m, remaining) ==
    IF remaining <= 0 \/ Candidates(bs, m) = {} THEN bs
    ELSE LET b == get_next_expiring_batch(bs, m)
             take == IF bs[b].quantity_available < remaining
                     THEN bs[b].quantity_available ELSE remaining
         IN  Allocate([bs EXCEPT ![b].quantity_available = @ - take,
                                 ![b].quantity_dispensed = @ + take],
                      m, remaining - take)

\* C7: a dispense of q units asked of the batch that first-expiry-first-out
\* selects, for a medicine whose active batches hold at least q, leaves the
\* batches as the walk does: each batch in (expiry, batch id) order gives
\* min(available, remaining).
C7_FefoAllocation ==
    [][\A b \in DOMAIN batches :
          (/\ last'.op = "dispense" /\ last'.who = b
           /\ b = get_next_expiring_batch(batches, batches[b].medicine)
           /\ last'.arg <= total_stock(batches[b].medicine))
              => batches' = Allocate(batches, batches[b].medicine, last'.arg)]_vars

\* C8: a dispense request for more than the batch's available quantity fails
\* and leaves every batch as it was.
C8_DispenseTooMuchFails ==
    [][\A b \in DOMAIN batches :
          (/\ last'.op = "dispense" /\ last'.who = b
           /\ last'.arg > batches[b].quantity_available)
              => (~last'.ok /\ batches' = batches)]_vars

\* A dispense has just failed on a batch that holds stock and has dispensed
\* some of it before.
C8_Witness ==
    /\ last.op = "dispense" /\ ~last.ok
    /\ last.who \in DOMAIN batches
    /\ batches[last.who].quantity_available > 0
    /\ batches[last.who].quantity_dispensed > 0
    /\ last.arg > batches[last.who].quantity_available

\* C9: every batch satisfies quantity_available + quantity_dispensed =
\* quantity_received and quantity_available >= 0.
C9_BatchLedger ==
    \A b \in DOMAIN batches :
        /\ batches[b].quantity_available + batches[b].quantity_dispensed
               = batches[b].quantity_received
        /\ batches[b].quantity_available >= 0

\* The violations of a line item as the specification lists them: over the
\* order-limit maximum, over the total available stock, prescription-only or
\* archived medicine.
OverLimit(o, m) ==
    items[o][m] > (IF meds[m].order_limit = "3_days" THEN 3 ELSE 7)

OverStock(o, m) ==
    items[o][m] >
        SumOver([b \in DOMAIN batches |-> batches[b].quantity_available],
                {b \in DOMAIN batches : /\ batches[b].medicine = m
                                        /\ batches[b].status = "active"})

NotOrderable(m) ==
    meds[m].prescription_type = "prescription" \/ meds[m].status = "archived"

\* C10: a checkout of a Pending order with a line item over its medicine's
\* order limit (3 or 7), over the medicine's available stock, or of a
\* medicine that is not orderable is refused: no queue number is assigned and
\* no order, item, medicine or batch changes.
C10_CheckoutViolationRejected ==
    [][\A o \in DOMAIN orders :
          (/\ last'.op = "order_checkout" /\ last'.who = o
           /\ orders[o].status = "Pending"
           /\ \E m \in DOMAIN items[o] :
                  OverLimit(o, m) \/ OverStock(o, m) \/ NotOrderable(m))
              => /\ ~last'.ok
                 /\ orders' = orders /\ items' = items
                 /\ meds' = meds /\ batches' = batches]_vars

\* A checkout has just been refused for a cart whose only violation is the
\* order limit, while another order holds a queue number.
C10_Witness ==
    /\ last.op = "order_checkout" /\ ~last.ok
    /\ last.who \in DOMAIN orders
    /\ orders[last.who].status = "Pending"
    /\ orders[last.who].queue_number = NoQueue
    /\ \E m \in DOMAIN items[last.who] :
           /\ OverLimit(last.who, m)
           /\ ~OverStock(last.who, m)
           /\ ~NotOrderable(m)
    /\ ActiveHolders # {}

\* C11: a checkout of a Pending order that has no line items is rejected: the
\* order does not become Processing and receives no queue number.
C11_EmptyCheckoutRejected ==
    [][\A o \in DOMAIN orders :
          (/\ last'.op = "order_checkout" /\ last'.who = o
           /\ orders[o].status = "Pending"
           /\ DOMAIN items[o] = {})
              => (~last'.ok /\ orders' = orders)]_vars

\* C12: every order whose status is Processing holds a queue number.
C12_ProcessingHoldsNumber ==
    \A o \in DOMAIN orders :
        orders[o].status = "Processing" => orders[o].queue_number # NoQueue

Retired == {"Shipped", "Completed", "Cancelled"}

\* C13: between requests, no order whose status is Shipped, Completed or
\* Cancelled holds a queue number.
C13_RetiredHoldNoNumber ==
    \A o \in DOMAIN orders :
        orders[o].status \in Retired => orders[o].queue_number = NoQueue

\* A shipped, a completed and a cancelled order, each of which entered the
\* queue before.
C13_Witness ==
    \E a, b, c \in DOMAIN orders :
        /\ orders[a].status = "Shipped" /\ SeqHas(firstSeq, a)
        /\ orders[b].status = "Completed" /\ SeqHas(firstSeq, b)
        /\ orders[c].status = "Cancelled" /\ SeqHas(firstSeq, c)

\* The statuses from which the specification allows each lifecycle action.
SourceOf ==
    [op \in LifecycleOps |->
        CASE op = "process" -> {"Pending"}
          [] op = "ship" -> {"Processing"}
          [] op = "complete" -> {"Shipped"}
          [] op = "archive" -> {"Completed"}
          [] op = "cancel" -> {"Pending", "Processing"}
          [] op = "reopen" -> {"Completed", "Cancelled"}]

\* C14: a lifecycle action requested for an order whose status is outside the
\* action's source set, and a ship requested for an order without a driver,
\* is rejected and leaves every order's status, queue number, driver and
\* completed_at unchanged.
C14_InvalidActionRejected ==
    [][\A o \in DOMAIN orders :
          (/\ last'.op \in LifecycleOps /\ last'.who = o
           /\ \/ orders[o].status \notin SourceOf[last'.op]
              \/ last'.op = "ship" /\ orders[o].driver = NoDriver)
              => (~last'.ok /\ orders' = orders)]_vars

\* A complete has just been refused for the Processing order at the head of
\* the queue, which has a driver, while another order is queued behind it.
C14_Witness ==
    /\ last.op = "complete" /\ ~last.ok
    /\ last.who \in DOMAIN orders
    /\ orders[last.who].status = "Processing"
    /\ orders[last.who].queue_number = 1
    /\ orders[last.who].driver # NoDriver
    /\ Cardinality(ActiveHolders) >= 2

\* C15: a reopen of a Completed or Cancelled order makes it Processing with
\* the queue number of an insert for its user's class at that time: for a
\* priority user a number smaller than that of every queued regular order,
\* for a regular user the highest number.
C15_ReopenInsertsByClass ==
    [][\A o \in DOMAIN orders :
          (/\ orders[o].status \in {"Completed", "Cancelled"}
           /\ orders'[o].status = "Processing")
              => LET n == orders'[o].queue_number
                     others == Queued(orders') \ {o}
                 IN  /\ n # NoQueue
                     /\ IF is_priority_user(orders[o].user)
                        THEN \A b \in others :
                                ~is_priority_user(orders'[b].user)
                                    => n < orders'[b].queue_number
                        ELSE \A b \in others : orders'[b].queue_number < n]_vars

PriorityHolders == {x \in Holders : is_priority_user(orders[x].user)}

RegularHolders == Holders \ PriorityHolders

\* C19: an insert into a queue of P priority and R regular orders gives a
\* priority order the number P+1, raises by one every number >= P+1 and
\* keeps the numbers <= P; it gives a regular order the number P+R+1 and
\* changes no other number.
C19_InsertFrame ==
    [][\A o \in DOMAIN orders :
          (orders[o].queue_number = NoQueue /\ orders'[o].queue_number # NoQueue)
              => LET P == Cardinality(PriorityHolders)
                     R == Cardinality(RegularHolders)
                 IN  IF is_priority_user(orders[o].user)
                     THEN /\ orders'[o].queue_number = P + 1
                          /\ \A x \in Holders :
                                orders'[x].queue_number =
                                    IF orders[x].queue_number >= P + 1
                                    THEN orders[x].queue_number + 1
                                    ELSE orders[x].queue_number
                     ELSE /\ orders'[o].queue_number = P + R + 1
                          /\ \A x \in Holders :
                                orders'[x].queue_number
                                    = orders[x].queue_number]_vars

\* The step retires order o: it was Pending or Processing and becomes
\* Shipped or Cancelled.
Retires(o) ==
    /\ orders[o].status \in ActiveStatus
    /\ orders'[o].status \in {"Shipped", "Cancelled"}

\* C20: retiring (ship or cancel) the order that holds queue number k sets
\* its number to none, lowers by one the number of every other active order
\* whose number was greater than k and leaves every other number unchanged;
\* retiring an order that holds no number changes no order's number.
C20_RetireFrame ==
    [][\A o \in DOMAIN orders :
          Retires(o)
              => LET k == orders[o].queue_number IN
                 IF k # NoQueue
                 THEN /\ orders'[o].queue_number = NoQueue
                      /\ \A x \in DOMAIN orders \ {o} :
                            orders'[x].queue_number =
                                IF /\ orders[x].status \in ActiveStatus
                                   /\ orders[x].queue_number > k
                                THEN orders[x].queue_number - 1
                                ELSE orders[x].queue_number
                 ELSE \A x \in DOMAIN orders :
                        orders'[x].queue_number = orders[x].queue_number]_vars

\* The order that held queue number 2 of three has just been cancelled; the
\* two orders that remain hold 1 and 2.
C20_Witness ==
    /\ last.op = "cancel" /\ last.ok /\ last.arg = 2
    /\ Cardinality(ActiveHolders) = 2
    /\ {orders[x].queue_number : x \in ActiveHolders} = {1, 2}

\* No request is in progress.
Quiescent == \A p \in Procs : inflight[p] = Idle

\* C16: after two concurrent checkouts, under any interleaving, the queue
\* numbers held by the orders are pairwise distinct and gapless (1..N).
C16_ConcurrentCheckoutsDistinct ==
    Quiescent =>
        /\ \A a, b \in Holders :
               a # b => orders[a].queue_number # orders[b].queue_number
        /\ {orders[o].queue_number : o \in Holders} = 1..Cardinality(Holders)

\* The quantity the finished calls report as dispensed.
Reported ==
    SumOver([p \in Procs |->
                IF inflight[p].pc = "returned" /\ inflight[p].ok
                THEN inflight[p].quantity ELSE 0], Procs)

\* C17: after two concurrent dispenses on the same batch, under any
\* interleaving, the quantity the calls report as dispensed does not exceed
\* what was available before them (the 7 received), and quantity_dispensed
\* equals the sum of the quantities of the calls that succeeded.
C17_ConcurrentDispensesAddUp ==
    (\A p \in Procs : inflight[p].pc = "returned") =>
        /\ Reported <= batches[1].quantity_received
        /\ batches[1].quantity_dispensed = Reported

\* C18: each user has at most one order with status Pending, also under
\* concurrent add-to-order requests of the same user.
C18_OnePendingPerUser == \A u \in Users : Cardinality(PendingOf(u)) <= 1

\* The step inserts order o into the queue: it held no number and holds one.
Inserts(o) ==
    orders[o].queue_number = NoQueue /\ orders'[o].queue_number # NoQueue

\* The user has a non-empty senior-citizen or disability document.
HasDocument(u) ==
    \/ docs[u].senior_citizen_id \notin {"NULL", ""}
    \/ docs[u].pwd_id \notin {"NULL", ""}

\* C21: in every insert into the queue, each decision on a priority class
\* treats the user as priority iff a senior-citizen or disability document is
\* non-empty: the test of the inserted order's user and, when that user is
\* priority and the queued orders are split by class, the query for the
\* queued priority orders and the query for the queued regular orders. A user
\* whose documents are '' is regular in all of them.
C21_ClassTestsAgree ==
    [][\A o \in DOMAIN orders :
          Inserts(o)
              => /\ is_priority_user(orders[o].user)
                        = HasDocument(orders[o].user)
                 /\ is_priority_user(orders[o].user)
                        => \A x \in pending_orders(orders, o) :
                              /\ priority_filter(orders[x].user)
                                     = HasDocument(orders[x].user)
                              /\ regular_filter(orders[x].user)
                                     = ~HasDocument(orders[x].user)]_vars

\* C22: while an order is Shipped or Completed its driver does not change:
\* no request made for an order that is Shipped or Completed, and stays so,
\* alters its driver.
C22_DriverFixedOnceShipped ==
    [][\A o \in DOMAIN orders :
          (/\ orders[o].status \in {"Shipped", "Completed"}
           /\ o \in DOMAIN orders'
           /\ orders'[o].status \in {"Shipped", "Completed"})
              => orders'[o].driver = orders[o].driver]_vars

\* C23: over batch creations, archivals and permanent deletions of archived
\* batches, the number given to a new batch is greater than every number
\* given to a batch before, so the number of an archived or deleted batch is
\* not issued again.
C23_BatchNumbersNeverReused ==
    [][\A b \in DOMAIN batches' \ DOMAIN batches :
          \A n \in issued : batches'[b].batch_no > n]_vars

\* Some order that is Pending, Processing or Shipped has a line item of
\* medicine m.
OpenOrderOn(m) ==
    \E o \in DOMAIN orders :
        /\ orders[o].status \in {"Pending", "Processing", "Shipped"}
        /\ m \in DOMAIN items[o]

\* The step archives the active batch b or deletes batch b.
BatchRetired(b) ==
    \/ b \notin DOMAIN batches'
    \/ batches[b].status = "active" /\ batches'[b].status = "archived"

\* C24: no batch is archived by the archive action, and none is permanently
\* deleted, while an order that is Pending, Processing or Shipped has a line
\* item of the batch's medicine.
C24_NoRetireWhileOrdered ==
    [][\A b \in DOMAIN batches :
          BatchRetired(b) => ~OpenOrderOn(batches[b].medicine)]_vars

\* C25: positionOf returns none for every order that is Shipped, Completed or
\* Cancelled, and returns k for every order that holds queue number k, also
\* while other users have Pending carts that hold no queue number.
C25_PositionIsQueueNumber ==
    \A o \in DOMAIN orders :
        /\ orders[o].status \in Retired
               => get_queue_position(orders, o, nullsFirst) = NoPosition
        /\ orders[o].queue_number # NoQueue
               => get_queue_position(orders, o, nullsFirst)
                      = orders[o].queue_number

\* The queue numbers held in the rows os are pairwise distinct and are
\* exactly 1..N, N the number of orders that hold one.
Gapless(os) ==
    /\ \A a, b \in Queued(os) : a # b => os[a].queue_number # os[b].queue_number
    /\ {os[o].queue_number : o \in Queued(os)} = 1..Cardinality(Queued(os))

\* The step removes a line item as remove_order_item does: the order is
\* deleted with its last item, or it is kept with one item fewer.
ItemRemoved(o) ==
    \/ o \notin DOMAIN orders'
    \/ /\ orders' = orders
       /\ DOMAIN items'[o] # DOMAIN items[o]
       /\ DOMAIN items'[o] \subseteq DOMAIN items[o]

\* C26: removing a line item, which deletes the whole order with its last
\* item, keeps the queue numbers of the remaining orders gapless (1..N):
\* deleting the order that holds number k closes the gap at k.
C26_RemoveItemKeepsGapless ==
    [][\A o \in DOMAIN orders :
          (Gapless(orders) /\ ItemRemoved(o)) => Gapless(orders')]_vars

\* C27: the line items of an order and their quantities change only while
\* the order is Pending: no request changes or deletes a line item of an
\* order that is Processing, Shipped, Completed or Cancelled.
C27_ItemsFrozenAfterCheckout ==
    [][\A o \in DOMAIN orders :
          orders[o].status # "Pending"
              => (o \in DOMAIN items' /\ items'[o] = items[o])]_vars

\* Order o entered the queue and its latest entry was followed by a cancel
\* that was carried out (where cancel is the only request that takes an order
\* out of the queue).
CancelCompleted(o) == SeqHas(firstSeq, o) /\ ~SeqHas(lastSeq, o)

\* C28: when a cancel runs concurrently with another user's checkout whose
\* renumbering loop has read the order, then once both have finished the
\* cancelled order is Cancelled and holds no queue number: the stale save of
\* the renumbering does not undo the cancel.
C28_CancelSurvivesRenumbering ==
    Quiescent =>
        \A o \in DOMAIN orders :
            CancelCompleted(o)
                => /\ orders[o].status = "Cancelled"
                   /\ orders[o].queue_number = NoQueue

\* C29: if staff keep assigning a driver to and shipping the order at the
\* head of the queue, every order that holds a queue number is eventually
\* shipped or cancelled, also while priority and regular users check out.
C29_QueuedEventuallyServed ==
    \A o \in 1..MaxOrders :
        (o \in DOMAIN orders /\ orders[o].queue_number # NoQueue)
            ~> (o \in DOMAIN orders
                    /\ orders[o].status \in {"Shipped", "Cancelled"})

\* C30: once fix_queue_numbers has run, then and after every checkout, ship,
\* cancel or reopen that follows, the queue numbers held are exactly 1..N
\* with no gap or duplicate, N the number of orders holding one, and every
\* order of a priority user holds a smaller number than every order of a
\* regular user.
C30_FixedQueueStaysOrdered ==
    fixed =>
        /\ Gapless(orders)
        /\ \A a, b \in Holders :
               (HasDocument(orders[a].user) /\ ~HasDocument(orders[b].user))
                   => orders[a].queue_number < orders[b].queue_number

====
